---- MODULE Spec2Model ----
(***************************************************************************)
(* CalibrationEngine of pyocamcalib/modelling/calibration.py as a state    *)
(* machine.  `self` holds the attributes of the engine, `pc` the position  *)
(* of the running method, `est` / `fpi` the local variables of             *)
(* estimate_fisheye_parameters / find_poly_inv.  The numerical routines    *)
(* imported from pyocamcalib.core (get_first_linear_estimate,              *)
(* get_taylor_linear, get_reprojection_error_all, bundle_adjustement) and  *)
(* numpy (roots, polyfit, polyval) are abstracted: each result is a value  *)
(* tagged with the run and the stage that produced it, and each call may   *)
(* return or raise.  `op`, `error`, `warning`, `calls`, `fits`, `reported` *)
(* and `baRan` record what the running (or last) method did.               *)
(***************************************************************************)
EXTENDS Integers, Sequences, FiniteSets, TLC

VARIABLES self, pc, run, est, fpi, op, error, warning, calls, fits, reported, baRan

vars == <<self, pc, run, est, fpi, op, error, warning, calls, fits, reported, baRan>>

\* ------------------------------------------------------------------ bounds
\* calls of estimate_fisheye_parameters that get past the detections check
MaxRuns == 2
\* angles sampled by find_poly_inv (nb_sample)
NbSample == 2
\* largest max_degree_inverse_poly passed to find_poly_inv
MaxDegree == 3

\* ------------------------------------------------------------------ values
\* An image path is <<directory, file stem>>; the working directory is "wd".
WorkingDirImages == <<<<"wd", "img1">>, <<"wd", "img2">>>>

\* Paths a detection file may hold: those of the working directory's images.
AllPaths == {WorkingDirImages[i] : i \in DOMAIN WorkingDirImages}

\* Path(img_path).name
PathName(p) == p[2]

RECURSIVE SeqsOver(_, _)
\* the sequences of distinct elements of S of length at most n
SeqsOver(S, n) ==
    IF n = 0 THEN {<<>>}
    ELSE LET shorter == SeqsOver(S, n - 1)
         IN  shorter \cup
             {Append(p[1], p[2]) :
                p \in {q \in shorter \X S :
                         Len(q[1]) = n - 1 /\ \A i \in DOMAIN q[1] : q[1][i] # q[2]}}

\* Python's None, and a value a stage of a run produced
None == [some |-> FALSE, run |-> 0, stage |-> "none", val |-> <<>>]
Value(r, st) == [some |-> TRUE, run |-> r, stage |-> st, val |-> <<>>]
\* a list (one entry per element of v) a stage of a run produced
ListValue(r, st, v) == [some |-> TRUE, run |-> r, stage |-> st, val |-> v]

Min(a, b) == IF a < b THEN a ELSE b

RECURSIVE ZipFilter(_, _, _, _)
\* [k for k, valid in zip(keys, mask) if valid = want], from index i on
ZipFilter(keys, mask, want, i) ==
    IF i > Min(Len(keys), Len(mask)) THEN <<>>
    ELSE (IF mask[i] = want THEN <<keys[i]>> ELSE <<>>)
         \o ZipFilter(keys, mask, want, i + 1)

\* any(valid_pattern), all(valid_pattern)
AnyTrue(mask) == \E i \in DOMAIN mask : mask[i]
AllTrue(mask) == \A i \in DOMAIN mask : mask[i]

\* ------------------------------------------------------------------ engine
\* __init__
FreshEngine ==
              [detections |-> <<>>,
               images_path |-> WorkingDirImages,
               distortion_center |-> Value(0, "sensor_center"),
               distortion_center_linear |-> None,
               taylor_coefficient_linear |-> None,
               extrinsics_t_linear |-> None,
               extrinsics_t |-> None,
               taylor_coefficient |-> None,
               stretch_matrix |-> None,
               valid_pattern |-> None,
               inverse_poly |-> None,
               rms_overall |-> None,
               rms_mean_list |-> None,
               rms_std_list |-> None,
               reprojection_errors_list |-> None,
               incident_angles_rad_list |-> None]

\* a float: a number (in thousandths), inf or nan
Num(x) == [kind |-> "num", v |-> x]
Inf == [kind |-> "inf", v |-> 0]
NaN == [kind |-> "nan", v |-> 0]

\* the local variables of estimate_fisheye_parameters and of find_poly_inv,
\* before they are assigned
EstLocals0 == [valid_pattern |-> None, d_center |-> None, extrinsics_t |-> None,
               taylor_coefficient |-> None]
FpiLocals0 == [max_degree_inverse_poly |-> 0, roots |-> {}, rho |-> <<>>,
               max_error |-> NaN, deg |-> 0, inv_coefficient |-> None]

Init ==
    /\ self = FreshEngine
    /\ pc = "idle"
    /\ run = 0
    /\ est = EstLocals0
    /\ fpi = FpiLocals0
    /\ op = "__init__"
    /\ error = "none"
    /\ warning = None
    /\ calls = <<>>
    /\ fits = <<>>
    /\ reported = None
    /\ baRan = FALSE

\* a method starts: the records of the previous call are cleared
Begin(name) ==
    /\ pc = "idle"
    /\ op' = name
    /\ warning' = None
    /\ calls' = <<>>
    /\ fits' = <<>>
    /\ reported' = None

RECURSIVE DictUpdate(_, _)
\* d[k] = ... for each k of ks in order: a new key goes last, a key the dict
\* holds keeps its place
DictUpdate(d, ks) ==
    IF ks = <<>> THEN d
    ELSE DictUpdate(IF \E i \in DOMAIN d : d[i] = ks[1] THEN d ELSE Append(d, ks[1]),
                    Tail(ks))

RECURSIVE SubSeqOf(_, _, _)
\* the elements of s, from index i on, that are in S
SubSeqOf(s, S, i) ==
    IF i > Len(s) THEN <<>>
    ELSE (IF s[i] \in S THEN <<s[i]>> ELSE <<>>) \o SubSeqOf(s, S, i + 1)

\* detect_corners: the images of the working directory in which a chessboard
\* is found are put in self.detections
detect_corners ==
    /\ Begin("detect_corners")
    /\ \E found \in SUBSET {WorkingDirImages[i] : i \in DOMAIN WorkingDirImages} :
          self' = [self EXCEPT !.detections =
                        DictUpdate(@, SubSeqOf(WorkingDirImages, found, 1))]
    /\ error' = "none"
    /\ UNCHANGED <<pc, run, est, fpi, baRan>>

\* load_detection: self.detections becomes the dict of the file
load_detection ==
    /\ Begin("load_detection")
    /\ \E loaded \in SeqsOver(AllPaths, Len(WorkingDirImages)) :
          self' = [self EXCEPT !.detections = loaded]
    /\ error' = "none"
    /\ UNCHANGED <<pc, run, est, fpi, baRan>>

\* ------------------------------------------- estimate_fisheye_parameters
\* faulty variant of DetectionsEmpty: `self.detections is None`
DetectionsIsNone(d) == FALSE

\* `not self.detections`
DetectionsEmpty(d) == d = <<>>

\* faulty variant of LinearEstimationFailed: `valid_pattern == None`
MaskIsNone(vp) == ~vp.some

\* `valid_pattern == None or not any(valid_pattern)`
LinearEstimationFailed(vp) == ~vp.some \/ ~AnyTrue(vp.val)

\* `not all(valid_pattern)`
SomeInvalid(vp) == ~AllTrue(vp.val)

RECURSIVE Names(_)
Names(ps) == IF ps = <<>> THEN <<>> ELSE <<PathName(ps[1])>> \o Names(Tail(ps))

\* faulty variant of InvalidImages: `if valid`
ValidImageNames(d, vp) == Names(ZipFilter(d, vp.val, TRUE, 1))

\* invalid_images: the names of the detections whose mask entry is false
InvalidImages(d, vp) == Names(ZipFilter(d, vp.val, FALSE, 1))

\* faulty variant of get_valid_image_paths: `if not valid`
get_invalid_image_paths(s) == ZipFilter(s.detections, s.valid_pattern.val, FALSE, 1)

\* get_valid_image_paths
get_valid_image_paths(s) == ZipFilter(s.detections, s.valid_pattern.val, TRUE, 1)

\* The masks get_first_linear_estimate may return for the detections d: None,
\* or one boolean per image.
MaskResults(d) ==
    {None} \cup {ListValue(run, "linear", m) : m \in [DOMAIN d -> BOOLEAN]}

\* A list the numerical routines return for the detections d under the mask
\* vp: one entry per valid image, in the order of the detections.
PerValidImage(d, vp, st) ==
    IF vp.some THEN ListValue(run, st, ZipFilter(d, vp.val, TRUE, 1)) ELSE None

\* a call of a numerical routine, with the mask it is given and the mask it
\* returns (None when it returns none, or raises)
Call(fn, vp, res) == [fn |-> fn, mask |-> vp, result |-> res]

\* the call raises: the method ends there
Raises(fn, vp) ==
    /\ calls' = Append(calls, Call(fn, vp, None))
    /\ error' = "raised"
    /\ pc' = "idle"
    /\ UNCHANGED <<self, run, est, fpi, op, warning, fits, reported, baRan>>

\* lines 154-156
estimate_check_detections ==
    /\ Begin("estimate_fisheye_parameters")
    /\ est' = EstLocals0
    /\ fpi' = FpiLocals0
    /\ \/ /\ DetectionsEmpty(self.detections)
          /\ error' = "ValueError: Detections is empty"
          /\ UNCHANGED <<pc, run>>
       \/ /\ ~DetectionsEmpty(self.detections)
          /\ run < MaxRuns
          /\ run' = run + 1
          /\ error' = "running"
          /\ pc' = "est_linear"
    /\ UNCHANGED <<self, baRan>>

\* lines 158-161
estimate_first_linear ==
    /\ pc = "est_linear"
    /\ \/ \E vp \in MaskResults(self.detections) :
             /\ est' = [valid_pattern |-> vp,
                        d_center |-> Value(run, "linear"),
                        extrinsics_t |-> PerValidImage(self.detections, vp, "linear"),
                        taylor_coefficient |-> None]
             /\ calls' = Append(calls, Call("get_first_linear_estimate", None, vp))
             /\ pc' = "est_check"
             /\ UNCHANGED <<self, run, fpi, op, error, warning, fits, reported, baRan>>
       \/ Raises("get_first_linear_estimate", None)

\* lines 164-172
estimate_check_mask ==
    /\ pc = "est_check"
    /\ \/ /\ LinearEstimationFailed(est.valid_pattern)
          /\ error' = "ValueError: Linear estimation failed"
          /\ pc' = "idle"
          /\ UNCHANGED warning
       \/ /\ ~LinearEstimationFailed(est.valid_pattern)
          /\ SomeInvalid(est.valid_pattern)
          /\ warning' = ListValue(run, "invalid images",
                                  InvalidImages(self.detections, est.valid_pattern))
          /\ pc' = "est_taylor"
          /\ UNCHANGED error
       \/ /\ ~LinearEstimationFailed(est.valid_pattern)
          /\ ~SomeInvalid(est.valid_pattern)
          /\ pc' = "est_taylor"
          /\ UNCHANGED <<error, warning>>
    /\ UNCHANGED <<self, run, est, fpi, op, calls, fits, reported, baRan>>

\* lines 174-175
estimate_taylor_linear ==
    /\ pc = "est_taylor"
    /\ \/ /\ est' = [est EXCEPT
                        !.taylor_coefficient = Value(run, "taylor"),
                        !.extrinsics_t =
                            PerValidImage(self.detections, est.valid_pattern, "taylor")]
          /\ calls' = Append(calls, Call("get_taylor_linear", est.valid_pattern, None))
          /\ pc' = "est_score_linear"
          /\ UNCHANGED <<self, run, fpi, op, error, warning, fits, reported, baRan>>
       \/ Raises("get_taylor_linear", est.valid_pattern)

\* faulty variant of StoreLinear: line 188 left out
StoreLinearWithoutMask(s, e) ==
    [s EXCEPT !.distortion_center_linear = e.d_center,
              !.taylor_coefficient_linear = e.taylor_coefficient,
              !.extrinsics_t_linear = e.extrinsics_t]

\* lines 185-188
StoreLinear(s, e) ==
    [s EXCEPT !.distortion_center_linear = e.d_center,
              !.taylor_coefficient_linear = e.taylor_coefficient,
              !.extrinsics_t_linear = e.extrinsics_t,
              !.valid_pattern = e.valid_pattern]

\* faulty variant of estimate_score_linear: the linear result is not scored
estimate_score_linear_skipped ==
    /\ pc = "est_score_linear"
    /\ self' = StoreLinear(self, est)
    /\ pc' = "est_bundle"
    /\ UNCHANGED <<run, est, fpi, op, error, warning, calls, fits, reported, baRan>>

\* lines 176-188
estimate_score_linear ==
    /\ pc = "est_score_linear"
    /\ \/ /\ calls' = Append(calls, Call("get_reprojection_error_all", est.valid_pattern, None))
          /\ self' = StoreLinear(self, est)
          /\ pc' = "est_bundle"
          /\ UNCHANGED <<run, est, fpi, op, error, warning, fits, reported, baRan>>
       \/ Raises("get_reprojection_error_all", est.valid_pattern)

\* lines 197-200
StoreOptimized(s, vp) ==
    [s EXCEPT !.distortion_center = Value(run, "bundle"),
              !.taylor_coefficient = Value(run, "bundle"),
              !.extrinsics_t = PerValidImage(s.detections, vp, "bundle"),
              !.stretch_matrix = Value(run, "bundle")]

\* lines 190-200
estimate_bundle_adjustement ==
    /\ pc = "est_bundle"
    /\ \/ /\ calls' = Append(calls, Call("bundle_adjustement", est.valid_pattern, None))
          /\ self' = StoreOptimized(self, est.valid_pattern)
          /\ baRan' = TRUE
          /\ pc' = "est_score_final"
          /\ UNCHANGED <<run, est, fpi, op, error, warning, fits, reported>>
       \/ Raises("bundle_adjustement", est.valid_pattern)

\* lines 213-217
StoreReport(s, vp) ==
    [s EXCEPT !.incident_angles_rad_list = PerValidImage(s.detections, vp, "score"),
              !.reprojection_errors_list = PerValidImage(s.detections, vp, "score"),
              !.rms_overall = Value(run, "score"),
              !.rms_mean_list = PerValidImage(s.detections, vp, "score"),
              !.rms_std_list = PerValidImage(s.detections, vp, "score")]

\* lines 202-217
estimate_score_final ==
    /\ pc = "est_score_final"
    /\ \/ /\ calls' = Append(calls, Call("get_reprojection_error_all", est.valid_pattern, None))
          /\ self' = StoreReport(self, est.valid_pattern)
          /\ error' = "none"
          /\ pc' = "idle"
          /\ UNCHANGED <<run, est, fpi, op, warning, fits, reported, baRan>>
       \/ Raises("get_reprojection_error_all", est.valid_pattern)

estimate_fisheye_parameters ==
    \/ estimate_check_detections
    \/ estimate_first_linear
    \/ estimate_check_mask
    \/ estimate_taylor_linear
    \/ estimate_score_linear
    \/ estimate_bundle_adjustement
    \/ estimate_score_final

\* ------------------------------------------------- show_model_projection
\* The stretch matrix before the bundle adjuster has run, as the data model
\* describes it.
Identity == Value(0, "identity")

\* lines 431-477: np.linalg.inv(self.stretch_matrix) raises on None
show_model_projection ==
    /\ Begin("show_model_projection")
    /\ error' = IF self.stretch_matrix.some THEN "none" ELSE "LinAlgError"
    /\ UNCHANGED <<self, pc, run, est, fpi, baRan>>

\* ------------------------------------------------ methods that only read
\* a method that changes no attribute starts and ends: `rep` is what it
\* returns or writes to disk, `err` the exception it ends with
Reads(name, err, rep) ==
    /\ pc = "idle"
    /\ op' = name
    /\ error' = err
    /\ reported' = rep
    /\ warning' = None
    /\ calls' = <<>>
    /\ fits' = <<>>
    /\ UNCHANGED <<self, pc, run, est, fpi, baRan>>

\* the guard of lines 246-253 (and 314-321, 345-352, 380-387)
GuardError(s) ==
    IF DetectionsEmpty(s.detections) THEN "ValueError: Detections is empty"
    ELSE IF ~s.extrinsics_t.some \/ ~s.taylor_coefficient.some
         THEN "ValueError: Camera parameters are empty"
         ELSE "none"

\* lines 219-234
get_chessboard_points_in_camera_system ==
    LET err == IF DetectionsEmpty(self.detections) THEN "ValueError: Detections is empty"
               ELSE IF ~self.extrinsics_t.some \/ self.extrinsics_t.val = <<>>
                    THEN "ValueError: Extrinsics parameters are empty"
                    ELSE "none"
    IN  /\ pc = "idle"
        /\ Reads("get_chessboard_points_in_camera_system", err,
                 IF err = "none" THEN ListValue(run, "world_points_c", self.extrinsics_t.val)
                 ELSE None)

\* lines 236-242 called by the user: zip(..., None) raises TypeError
call_get_valid_image_paths ==
    IF self.valid_pattern.some
    THEN Reads("get_valid_image_paths", "none",
               ListValue(run, "paths", get_valid_image_paths(self)))
    ELSE Reads("get_valid_image_paths", "TypeError", None)

RECURSIVE SavedFigures(_, _, _, _)
\* lines 255-290 for the valid images from the i-th on, n the number of
\* extrinsics: the names of the figures saved.  When the sub-directory
\* 'reprojections' does not exist it is made (line 286), else the figure is
\* saved (line 288).
SavedFigures(paths, i, exists, n) ==
    IF i > Len(paths) \/ i > n THEN <<>>
    ELSE (IF exists THEN <<PathName(paths[i])>> ELSE <<>>)
         \o SavedFigures(paths, i + 1, TRUE, n)

\* lines 244-290; self.extrinsics_t[i] raises IndexError when the valid paths
\* outnumber the extrinsics
show_reprojection ==
    /\ pc = "idle"
    /\ \E save_directory \in {"none", "without reprojections", "with reprojections"} :
        IF GuardError(self) # "none"
        THEN Reads("show_reprojection", GuardError(self), None)
        ELSE LET paths == get_valid_image_paths(self)
                 n == Len(self.extrinsics_t.val)
             IN  Reads("show_reprojection",
                       IF Len(paths) > n THEN "IndexError" ELSE "none",
                       ListValue(run, save_directory,
                                 IF save_directory = "none" THEN <<>>
                                 ELSE SavedFigures(paths, 1,
                                                   save_directory = "with reprojections", n)))

\* lines 292-307: no guard, len(None) raises TypeError
show_mean_reprojection_error ==
    /\ pc = "idle"
    /\ Reads("show_mean_reprojection_error",
             IF ~self.rms_mean_list.some \/ ~self.valid_pattern.some THEN "TypeError"
             ELSE "none",
             None)

\* lines 309-338: zip(None, ...) raises TypeError
show_reporjection_error_scatter ==
    /\ pc = "idle"
    /\ Reads("show_reporjection_error_scatter",
             IF GuardError(self) # "none" THEN GuardError(self)
             ELSE IF ~self.reprojection_errors_list.some THEN "TypeError" ELSE "none",
             None)

\* lines 340-372
show_reporjection_error_by_angle ==
    /\ pc = "idle"
    /\ Reads("show_reporjection_error_by_angle",
             IF GuardError(self) # "none" THEN GuardError(self)
             ELSE IF ~self.reprojection_errors_list.some \/ ~self.incident_angles_rad_list.some
                  THEN "TypeError" ELSE "none",
             None)

\* lines 374-422
show_3d_chessboards ==
    /\ pc = "idle"
    /\ Reads("show_3d_chessboards", GuardError(self), None)

\* lines 479-501: None has no tolist
save_calibration ==
    IF \/ ~self.taylor_coefficient.some
       \/ ~self.stretch_matrix.some
       \/ ~self.inverse_poly.some
    THEN Reads("save_calibration", "AttributeError", None)
    ELSE Reads("save_calibration", "none", Value(run, "calibration json"))

Readers ==
    \/ get_chessboard_points_in_camera_system
    \/ call_get_valid_image_paths
    \/ show_reprojection
    \/ show_mean_reprojection_error
    \/ show_reporjection_error_scatter
    \/ show_reporjection_error_by_angle
    \/ show_3d_chessboards
    \/ show_model_projection
    \/ save_calibration

Next ==
    \/ detect_corners
    \/ load_detection
    \/ estimate_fisheye_parameters
    \/ Readers

Spec == Init /\ [][Next]_vars

\* ----------------------------------------------------------- find_poly_inv
\* the tolerance 0.01 of line 538, in thousandths
Tolerance == 10

\* The maximum errors a fit may have (thousandths): below, at and above the
\* tolerance.
FitErrors == {5, 10, 20}

\* The values sample_ratio is given (tenths).
SampleRatios == {-1, 0, 9, 10, 11}

\* The root sets np.roots may return for a sample: complex numbers <<re, im>>,
\* the complex ones in conjugate pairs.
RootSets ==
    {R \cup C : R \in SUBSET {<<-1, 0>>, <<0, 0>>, <<1, 0>>, <<2, 0>>},
                C \in {{}, {<<1, 1>>, <<1, -1>>}}}

\* numpy's `roots > 0` on complex numbers: the order is that of the real
\* parts, then of the imaginary parts
GreaterThanZero(z) == z[1] > 0 \/ (z[1] = 0 /\ z[2] > 0)

\* lines 526-531: the smallest of the positive real roots, nan when there is
\* none
SmallestPositiveRoot(roots) ==
    LET kept == {z[1] : z \in {y \in roots : GreaterThanZero(y) /\ y[2] = 0}}
    IN  IF kept = {} THEN NaN
        ELSE Num(CHOOSE x \in kept : \A y \in kept : x <= y)

\* `max_error > 0.01`: false when max_error is nan
AboveTolerance(e) == e.kind = "inf" \/ (e.kind = "num" /\ e.v > Tolerance)

\* line 538
LoopCondition(l) == AboveTolerance(l.max_error) /\ l.deg < l.max_degree_inverse_poly

HasNaN(rho) == \E i \in DOMAIN rho : rho[i].kind = "nan"

\* np.polyfit(theta, rho, deg): deg + 1 coefficients, all nan when the data
\* hold a nan
PolyFit(rho, deg) ==
    ListValue(run, "polyfit", [i \in 1..(deg + 1) |-> IF HasNaN(rho) THEN "nan" ELSE "c"])

\* lines 512-518
find_poly_inv_check ==
    /\ Begin("find_poly_inv")
    /\ est' = EstLocals0
    /\ \E sample_ratio \in SampleRatios, max_degree_inverse_poly \in 1..MaxDegree :
          \/ /\ ~self.taylor_coefficient.some \/ ~self.distortion_center.some
             /\ error' = "ValueError: Fisheye parameters are empty"
             /\ fpi' = FpiLocals0
             /\ UNCHANGED pc
          \/ /\ self.taylor_coefficient.some /\ self.distortion_center.some
             /\ sample_ratio < 0 \/ sample_ratio > 10
             /\ error' = "ValueError: sample_ratio"
             /\ fpi' = FpiLocals0
             /\ UNCHANGED pc
          \/ /\ self.taylor_coefficient.some /\ self.distortion_center.some
             /\ ~(sample_ratio < 0 \/ sample_ratio > 10)
             /\ error' = "running"
             /\ fpi' = [FpiLocals0 EXCEPT
                            !.max_degree_inverse_poly = max_degree_inverse_poly]
             /\ pc' = "fpi_roots"
    /\ UNCHANGED <<self, run, baRan>>

\* lines 522-531, one sample
find_poly_inv_roots ==
    /\ pc = "fpi_roots"
    /\ Len(fpi.rho) < NbSample
    /\ \E roots \in RootSets :
          fpi' = [fpi EXCEPT !.roots = roots,
                             !.rho = Append(@, SmallestPositiveRoot(roots))]
    /\ UNCHANGED <<self, pc, run, est, op, error, warning, calls, fits, reported, baRan>>

\* lines 533-535
find_poly_inv_start_fit ==
    /\ pc = "fpi_roots"
    /\ Len(fpi.rho) = NbSample
    /\ fpi' = [fpi EXCEPT !.max_error = Inf, !.deg = 1]
    /\ pc' = "fpi_fit"
    /\ UNCHANGED <<self, run, est, op, error, warning, calls, fits, reported, baRan>>

\* lines 538-542, one turn of the loop; on data that hold a nan the least
\* squares solver of np.polyfit raises or gives nan
find_poly_inv_fit ==
    /\ pc = "fpi_fit"
    /\ LoopCondition(fpi)
    /\ \/ \E e \in IF HasNaN(fpi.rho) THEN {NaN} ELSE {Num(x) : x \in FitErrors} :
             /\ fpi' = [fpi EXCEPT !.inv_coefficient = PolyFit(fpi.rho, fpi.deg),
                                   !.max_error = e,
                                   !.deg = @ + 1]
             /\ fits' = Append(fits, [deg |-> fpi.deg, rho |-> fpi.rho,
                                      inv_coefficient |-> PolyFit(fpi.rho, fpi.deg),
                                      max_error |-> e])
             /\ UNCHANGED <<pc, error>>
       \/ /\ HasNaN(fpi.rho)
          /\ fits' = Append(fits, [deg |-> fpi.deg, rho |-> fpi.rho,
                                   inv_coefficient |-> None, max_error |-> NaN])
          /\ error' = "LinAlgError"
          /\ pc' = "idle"
          /\ UNCHANGED fpi
    /\ UNCHANGED <<self, run, est, op, warning, calls, reported, baRan>>

\* lines 543-548: the degree is logged, then the coefficients, which are
\* unbound when the loop has not run
find_poly_inv_end ==
    /\ pc = "fpi_fit"
    /\ ~LoopCondition(fpi)
    /\ reported' = ListValue(run, "Reprojection polynomial degree", <<fpi.deg>>)
    /\ \/ /\ ~fpi.inv_coefficient.some
          /\ error' = "UnboundLocalError"
          /\ UNCHANGED self
       \/ /\ fpi.inv_coefficient.some
          /\ self' = [self EXCEPT !.inverse_poly = fpi.inv_coefficient]
          /\ error' = "none"
    /\ pc' = "idle"
    /\ UNCHANGED <<run, est, fpi, op, warning, calls, fits, baRan>>

find_poly_inv ==
    \/ find_poly_inv_check
    \/ find_poly_inv_roots
    \/ find_poly_inv_start_fit
    \/ find_poly_inv_fit
    \/ find_poly_inv_end

\* An engine calibrated once on the images of the working directory, all of
\* them valid.
CalibratedEngine ==
    LET vp == ListValue(run, "linear", [i \in DOMAIN WorkingDirImages |-> TRUE])
        loaded == [FreshEngine EXCEPT !.detections = WorkingDirImages]
        e == [valid_pattern |-> vp,
              d_center |-> Value(run, "linear"),
              extrinsics_t |-> PerValidImage(loaded.detections, vp, "taylor"),
              taylor_coefficient |-> Value(run, "taylor")]
    IN  StoreReport(StoreOptimized(StoreLinear(loaded, e), vp), vp)

\* the inverse polynomial fitter, on a fresh engine and on a calibrated one
InitInverse ==
    /\ pc = "idle"
    /\ run \in {0, 1}
    /\ self = IF run = 0 THEN FreshEngine ELSE CalibratedEngine
    /\ est = EstLocals0
    /\ fpi = FpiLocals0
    /\ op = IF run = 0 THEN "__init__" ELSE "estimate_fisheye_parameters"
    /\ error = "none"
    /\ warning = None
    /\ calls = <<>>
    /\ fits = <<>>
    /\ reported = None
    /\ baRan = (run = 1)

NextInverse == find_poly_inv \/ Readers

SpecInverse == InitInverse /\ [][NextInverse]_vars

\* ------------------------------------------------------------- properties
Estimating == op = "estimate_fisheye_parameters"

\* get_first_linear_estimate has returned in the running (or last) estimation
LinearReturned == Estimating /\ est.d_center.some

\* the estimation has run to its end
Succeeded == Estimating /\ pc = "idle" /\ error = "none"

\* the mask get_first_linear_estimate returned
Returned == calls[1].result

NoneValid(vp) == ~vp.some \/ \A i \in DOMAIN vp.val : ~vp.val[i]
Mixed(vp) ==
    /\ vp.some
    /\ \E i \in DOMAIN vp.val : vp.val[i]
    /\ \E i \in DOMAIN vp.val : ~vp.val[i]

CallNames == [i \in DOMAIN calls |-> calls[i].fn]

\* the lists that hold one entry per valid image
PerValidLists ==
    {self.extrinsics_t, self.rms_mean_list, self.rms_std_list,
     self.reprojection_errors_list, self.incident_angles_rad_list}

\* the results of a calibration
ResultFields ==
    PerValidLists \cup {self.valid_pattern, self.taylor_coefficient, self.distortion_center,
                        self.stretch_matrix, self.rms_overall}

\* C1: estimate_fisheye_parameters on an engine that holds no detection ends
\* with the ValueError "Detections is empty", and no numerical routine (linear
\* estimator, scorer, bundle adjuster) has been called.
C1_EmptyDetectionsRaise ==
    (Estimating /\ self.detections = <<>>) =>
        /\ pc = "idle"
        /\ error = "ValueError: Detections is empty"
        /\ calls = <<>>

C1_Witness ==
    /\ Estimating
    /\ self.detections = <<>>
    /\ error = "ValueError: Detections is empty"

\* C2: when the mask the first linear estimate returns has no valid image
\* (None, or all entries false) the estimation ends with the ValueError
\* "Linear estimation failed", and get_taylor_linear, the scorer and the
\* bundle adjuster are not called.
C2_NoValidImageIsFatal ==
    (LinearReturned /\ NoneValid(Returned)) =>
        /\ pc \in {"est_check", "idle"}
        /\ pc = "idle" => error = "ValueError: Linear estimation failed"
        /\ CallNames = <<"get_first_linear_estimate">>

C2_Witness ==
    /\ LinearReturned
    /\ Returned.some
    /\ Len(Returned.val) = 2
    /\ NoneValid(Returned)
    /\ pc = "idle"
    /\ error = "ValueError: Linear estimation failed"

\* C3: when the mask has a true and a false entry, the mask check raises no
\* error: it warns with the names of exactly the images whose entry is false,
\* the estimation goes on (it can only end early because a numerical routine
\* raises), and at its end every stage has been called and every result of the
\* calibration is set by this run.
C3_PartialValidityContinues ==
    (LinearReturned /\ Mixed(Returned) /\ pc # "est_check") =>
        /\ error \in {"running", "none", "raised"}
        /\ warning.some
        /\ Len(warning.val) = Cardinality({i \in DOMAIN Returned.val : ~Returned.val[i]})
        /\ \A i \in DOMAIN self.detections :
              (~Returned.val[i]) <=>
                  (\E j \in DOMAIN warning.val : warning.val[j] = self.detections[i][2])
        /\ Succeeded =>
              /\ CallNames = <<"get_first_linear_estimate", "get_taylor_linear",
                               "get_reprojection_error_all", "bundle_adjustement",
                               "get_reprojection_error_all">>
              /\ \A f \in ResultFields : f.some /\ f.run = run

C3_Witness ==
    /\ Succeeded
    /\ Mixed(Returned)
    /\ warning.some

\* the index of the k-th true entry of the mask m
NthValid(m, k) ==
    CHOOSE i \in DOMAIN m : m[i] /\ Cardinality({j \in 1..i : m[j]}) = k

\* C4: after a successful estimation the stored mask has one entry per image
\* of the detections, and extrinsics_t, rms_mean_list, rms_std_list,
\* reprojection_errors_list, incident_angles_rad_list and the list
\* get_valid_image_paths returns have one entry per true entry of the mask,
\* the k-th being that of the k-th image whose entry is true.
C4_PerValidImageListsAligned ==
    Succeeded =>
        LET m == self.valid_pattern.val
            n == Cardinality({i \in DOMAIN m : m[i]})
            paths == get_valid_image_paths(self)
        IN  /\ Len(m) = Len(self.detections)
            /\ Len(paths) = n
            /\ \A k \in 1..n : paths[k] = self.detections[NthValid(m, k)]
            /\ \A l \in PerValidLists :
                  /\ l.some
                  /\ Len(l.val) = n
                  /\ \A k \in 1..n : l.val[k] = paths[k]

C4_Witness ==
    /\ Succeeded
    /\ self.valid_pattern.val = <<FALSE, TRUE>>
    /\ Len(self.extrinsics_t.val) = 1

\* C5: the mask is the one get_first_linear_estimate returned wherever it is
\* used afterwards: it is the mask given to get_taylor_linear, to both calls of
\* the scorer and to the bundle adjuster, and the mask in self.valid_pattern
\* from line 188 to the end of the estimation.
C5_MaskFrozen ==
    (Estimating /\ calls # <<>>) =>
        /\ \A i \in 2..Len(calls) : calls[i].mask = Returned
        /\ (pc \in {"est_bundle", "est_score_final"} \/ Succeeded) =>
              self.valid_pattern = Returned

C5_Witness ==
    /\ Succeeded
    /\ run = 2
    /\ Len(calls) = 5
    /\ self.valid_pattern = Returned

\* C6: between two calls of its methods, an engine that has been calibrated
\* holds a mask, linear results, refined parameters and error lists that all
\* come from one run of estimate_fisheye_parameters.
C6_DerivedFromOneRun ==
    (pc = "idle" /\ self.rms_overall.some) =>
        \A f, g \in ResultFields \cup {self.distortion_center_linear,
                                        self.taylor_coefficient_linear,
                                        self.extrinsics_t_linear} : f.run = g.run

Fitting == op = "find_poly_inv"

\* find_poly_inv has left its loop and run to its end, or to the log of the
\* coefficients
LoopLeft == Fitting /\ pc = "idle" /\ error \in {"none", "UnboundLocalError"}

\* the maximum error e meets the tolerance (an error equal to it counted as
\* meeting it)
MeetsTolerance(e) == e.kind = "num" /\ e.v <= Tolerance

\* C7: the radius of a sample is the smallest positive real root, a sample
\* without one is undefined (never zero), and no undefined sample is in the
\* data given to a fit or to the computation of the maximum error.
C7_UndefinedSamplesExcluded ==
    Fitting =>
        /\ (pc = "fpi_roots" /\ fpi.rho # <<>>) =>
              LET r == fpi.rho[Len(fpi.rho)]
                  positive == {z \in fpi.roots : z[2] = 0 /\ z[1] > 0}
              IN  /\ positive = {} <=> r.kind = "nan"
                  /\ positive # {} =>
                        /\ r.kind = "num"
                        /\ <<r.v, 0>> \in positive
                        /\ \A z \in positive : r.v <= z[1]
        /\ \A i \in DOMAIN fits : \A j \in DOMAIN fits[i].rho :
              fits[i].rho[j].kind = "num"

\* C8: the degrees fitted are 1, 2, 3, ... in this order; the last one is the
\* first whose maximum error meets the tolerance, or it is
\* max_degree_inverse_poly and no fit has met the tolerance; inverse_poly is
\* the fit of this last degree.  Stated for the runs in which every sample
\* has a radius.
C8_StopsAtToleranceOrMaxDegree ==
    (Fitting /\ pc = "idle" /\ error = "none" /\ ~HasNaN(fpi.rho)) =>
        LET k == Len(fits)
        IN  /\ k >= 1
            /\ \A i \in 1..k : fits[i].deg = i
            /\ \A i \in 1..(k - 1) : ~MeetsTolerance(fits[i].max_error)
            /\ MeetsTolerance(fits[k].max_error) \/ k = fpi.max_degree_inverse_poly
            /\ self.inverse_poly = fits[k].inv_coefficient

\* C9: when no fit up to the maximum degree meets the tolerance,
\* find_poly_inv ends without an error, with a warning, and inverse_poly is
\* the last fit.  Stated for the runs in which every sample has a radius.
C9_DegreeExhaustedWarns ==
    (LoopLeft /\ ~HasNaN(fpi.rho) /\ \A i \in DOMAIN fits : ~MeetsTolerance(fits[i].max_error)) =>
        /\ error = "none"
        /\ warning.some
        /\ fits # <<>>
        /\ self.inverse_poly = fits[Len(fits)].inv_coefficient

\* C10: the stretch matrix is the identity until the bundle adjuster has run.
C10_StretchIdentityUntilBundle == ~baRan => self.stretch_matrix = Identity

\* the errors that tell the caller that detections or a calibration are missing
InputEmptyErrors ==
    {"ValueError: Detections is empty",
     "ValueError: Extrinsics parameters are empty",
     "ValueError: Camera parameters are empty",
     "ValueError: Fisheye parameters are empty"}

\* the methods that need detections or a calibration
RequiringMethods ==
    {"get_chessboard_points_in_camera_system", "get_valid_image_paths",
     "show_reprojection", "show_mean_reprojection_error",
     "show_reporjection_error_scatter", "show_reporjection_error_by_angle",
     "show_3d_chessboards", "show_model_projection", "save_calibration",
     "find_poly_inv"}

\* C11: a method that needs detections or a calibration, called on an engine
\* that holds nothing of a calibration, ends with the input-empty ValueError;
\* so does save_calibration as long as there is no inverse polynomial.
C11_MissingInputRaisesValueError ==
    /\ (pc = "idle" /\ op \in RequiringMethods
           /\ ~self.valid_pattern.some /\ ~self.taylor_coefficient.some) =>
          error \in InputEmptyErrors
    /\ (pc = "idle" /\ op = "save_calibration" /\ ~self.inverse_poly.some) =>
          error \in InputEmptyErrors

\* the numerical routines in the order of a run
StageOrder ==
    <<"get_first_linear_estimate", "get_taylor_linear", "get_reprojection_error_all",
      "bundle_adjustement", "get_reprojection_error_all">>

\* C12: the routines an estimation has called are, at every moment, the first
\* ones of: linear estimate, Taylor refinement, scoring, bundle adjustment,
\* scoring; a successful estimation has called all five, once each in this
\* order, and stored the refined and the scored results; the inverse
\* polynomial is not fitted during an estimation.
C12_StagesInOrder ==
    Estimating =>
        /\ Len(calls) <= Len(StageOrder)
        /\ \A i \in DOMAIN calls : calls[i].fn = StageOrder[i]
        /\ Succeeded =>
              /\ Len(calls) = Len(StageOrder)
              /\ self.extrinsics_t_linear.stage = "taylor"
              /\ self.extrinsics_t.stage = "bundle"
              /\ self.rms_overall.stage = "score"
        /\ fits = <<>>
        /\ pc \notin {"fpi_roots", "fpi_fit"}

C12_Witness ==
    /\ Succeeded
    /\ run = 1
    /\ CallNames = StageOrder
    /\ AllTrue(self.valid_pattern.val)

\* C13: once a calibration has succeeded, after load_detection or
\* detect_corners the stored mask still has one entry per stored detection,
\* and get_valid_image_paths gives as many paths as there are extrinsics.
C13_MaskAlignedWithDetections ==
    (pc = "idle" /\ op \in {"load_detection", "detect_corners"} /\ self.rms_overall.some) =>
        /\ Len(self.valid_pattern.val) = Len(self.detections)
        /\ Len(get_valid_image_paths(self)) = Len(self.extrinsics_t.val)

\* C14: the degree find_poly_inv logs is the degree of the polynomial it
\* stores: inverse_poly has one coefficient more than the logged degree.
\* Stated for the runs in which every sample has a radius.
C14_ReportedDegreeIsStoredDegree ==
    (Fitting /\ pc = "idle" /\ error = "none" /\ ~HasNaN(fpi.rho)) =>
        Len(self.inverse_poly.val) = reported.val[1] + 1

\* C15: show_reprojection with a save_directory saves one figure per valid
\* image, whether the sub-directory 'reprojections' exists at the start or
\* not.
C15_OneFigurePerValidImage ==
    (pc = "idle" /\ op = "show_reprojection" /\ error = "none"
       /\ reported.some /\ reported.stage # "none") =>
        /\ Len(reported.val) = Cardinality({i \in DOMAIN self.valid_pattern.val :
                                              i <= Len(self.detections)
                                              /\ self.valid_pattern.val[i]})
        /\ reported.val = Names(get_valid_image_paths(self))

====
